---------------------------- MODULE Spec2Model ----------------------------
(***************************************************************************)
(* A model of the gunaha / morphodict lexical search engine:               *)
(*   - apps/gunaha/orthography.py : normalize_orthography, to_search_form  *)
(*   - apps/morphodict/apps.py    : ready, initialize_affix_search         *)
(*   - apps/morphodict/models.py  : Wordform.save,                         *)
(*                                  Wordform.fetch_lemma_by_user_query,    *)
(*                                  Wordform.search, sort_search_result    *)
(*   - CreeDictionary/DatabaseManager/xml_importer.py : import_xmls        *)
(*                                                                         *)
(*   - apps/gunaha/import_dictionary.py : import_dictionary and the        *)
(*                                  OnespotWordlistImporter                *)
(*   - apps/morphodict/managers.py, search.py, search_indexes.py : the     *)
(*                                  search of the heads                    *)
(*                                                                         *)
(* The specifications share the variables: OrthSpec (the orthography       *)
(* functions), Spec (start-up and searches, one at a time), ConcSpec       *)
(* (searches while the dictionary is imported and the index built again),  *)
(* StoreSpec (the wordform table under save and import), SaveSpec (saves   *)
(* of wordforms running side by side), ImportSpec (imports of the          *)
(* vocabulary list) and HeadSpec (the search of the heads).                *)
(*                                                                         *)
(* Text is a sequence of characters.  A character is the name of a Unicode *)
(* code point:                                                             *)
(*   "a" U+0061   "A" U+0041   "l" U+006C                                  *)
(*   "l_stroke" U+0142   "l_tilde" U+026B   "l_acute" U+013A               *)
(*   "apos" U+0027   "rsquo" U+2019   "sp" U+0020   "tab" U+0009           *)
(*   "acute" U+0301   "macron" U+0304   "circ" U+0302   (combining marks)  *)
(*   "a_acute" U+00E1    "a_macron" U+0101   "a_circ" U+00E2               *)
(*   "a_circ_acute" U+1EA5                                                 *)
(*   "A_acute" U+00C1    "A_macron" U+0100   "A_circ" U+00C2               *)
(*   "A_circ_acute" U+1EA4   "star" U+002A   "qmark" U+003F                *)
(* The set is closed under lower-casing and under canonical composition    *)
(* and decomposition, so str.lower, NFC and NFKD are modelled exactly on   *)
(* it.                                                                     *)
(***************************************************************************)
EXTENDS Integers, Sequences, FiniteSets, TLC

VARIABLES
    \* ---- orthography (apps/gunaha) ----
    orth_pc,        \* "input" | "imported" | "indexed" | "searched"
    word,           \* the raw text handed to the orthography functions
    head_text,      \* Head.text: normalize_orthography(word)
    head_simplified,\* HeadIndex.head: to_search_form(head_text)
    query_key,      \* to_search_form(word) as computed for a query
    \* ---- morphodict search ----
    pc,             \* "starting" | "serving"
    table_exists,   \* can the wordform table be read?
    store,          \* the wordform / definition / keyword tables
    affix_searcher, \* Wordform.affix_searcher: Unset or <<the built index>>
    in_flight,      \* the calls under way: a Wordform.search that has read the
                    \* index once, or the saves that have read Max("id")
    user_query,     \* the query of the last Wordform.search call that ended
    kwargs,         \* the disambiguators of that call
    outcome,        \* what that call did
    \* ---- gunaha dictionary: import and head search ----
    database,       \* the tables of the dictionary database
    tsv,            \* the vocabulary list at its path: Unset or <<the file>>
    import_outcome, \* what the last import_dictionary call did
    index,          \* the documents of the search index of the heads
    head_query,     \* the query of the last head search
    languages,      \* the language selection of that search
    head_outcome    \* what that search did

orthVars   == <<orth_pc, word, head_text, head_simplified, query_key>>
searchVars == <<pc, table_exists, store, affix_searcher, in_flight,
                user_query, kwargs, outcome>>
dictVars   == <<database, tsv, import_outcome, index, head_query, languages,
                head_outcome>>
vars       == <<orth_pc, word, head_text, head_simplified, query_key,
                pc, table_exists, store, affix_searcher, in_flight,
                user_query, kwargs, outcome,
                database, tsv, import_outcome, index, head_query, languages,
                head_outcome>>

-----------------------------------------------------------------------------
(* Bounds *)

MaxWordLen == 3

-----------------------------------------------------------------------------
(* Characters and the Python / unicodedata primitives the code calls *)

Chars ==
    {"a", "A", "l", "l_stroke", "l_tilde", "l_acute",
     "apos", "rsquo", "sp", "tab", "acute", "macron", "circ",
     "a_acute", "a_macron", "a_circ", "a_circ_acute",
     "A_acute", "A_macron", "A_circ", "A_circ_acute",
     "star", "qmark"}

NoChar == "none"

\* str.isspace
IsSpace(c) == c \in {"sp", "tab"}

\* canonical combining class > 0 (all three marks have class 230)
IsCombining(c) == c \in {"acute", "macron", "circ"}

\* the one-step canonical decomposition of a character (UnicodeData.txt)
Decomposition(c) ==
    CASE c = "a_acute"      -> <<"a", "acute">>
      [] c = "a_macron"     -> <<"a", "macron">>
      [] c = "a_circ"       -> <<"a", "circ">>
      [] c = "a_circ_acute" -> <<"a_circ", "acute">>
      [] c = "A_acute"      -> <<"A", "acute">>
      [] c = "A_macron"     -> <<"A", "macron">>
      [] c = "A_circ"       -> <<"A", "circ">>
      [] c = "A_circ_acute" -> <<"A_circ", "acute">>
      [] c = "l_acute"      -> <<"l", "acute">>
      [] OTHER              -> <<c>>

\* the primary composite of a starter and a mark, NoChar when there is none
Composite(b, m) ==
    LET hits == {c \in Chars : Decomposition(c) = <<b, m>>}
    IN  IF hits = {} THEN NoChar ELSE CHOOSE c \in hits : TRUE

\* str.lower, one character
LowerChar(c) ==
    CASE c = "A"            -> "a"
      [] c = "A_acute"      -> "a_acute"
      [] c = "A_macron"     -> "a_macron"
      [] c = "A_circ"       -> "a_circ"
      [] c = "A_circ_acute" -> "a_circ_acute"
      [] OTHER              -> c

\* str.lower
lower(s) == [i \in 1..Len(s) |-> LowerChar(s[i])]

\* str.replace(c, d) for one-character c and d
replace(s, c, d) == [i \in 1..Len(s) |-> IF s[i] = c THEN d ELSE s[i]]

\* str.replace(c, "")
remove(s, c) == SelectSeq(s, LAMBDA x : x # c)

RECURSIVE lstrip(_)
lstrip(s) == IF s # <<>> /\ IsSpace(Head(s)) THEN lstrip(Tail(s)) ELSE s

RECURSIVE rstrip(_)
rstrip(s) ==
    IF s # <<>> /\ IsSpace(s[Len(s)]) THEN rstrip(SubSeq(s, 1, Len(s) - 1)) ELSE s

\* str.strip
strip(s) == rstrip(lstrip(s))

\* unicodedata.normalize("NFD", s); every mark here has combining class 230,
\* so canonical ordering never moves one
RECURSIVE nfd(_)
nfd(s) ==
    IF s = <<>> THEN <<>>
    ELSE LET d == Decomposition(Head(s))
         IN  (IF d = <<Head(s)>> THEN d ELSE nfd(d)) \o nfd(Tail(s))

\* unicodedata.normalize("NFKD", s): no character here has a compatibility
\* decomposition, so NFKD decomposes as NFD does
nfkd(s) == nfd(s)

\* canonical composition of a decomposed text: out is the text composed so far,
\* ls the position in out of the last starter (0: none).  A mark composes with
\* the last starter unless a mark of the same class stands between them.
RECURSIVE ComposeFrom(_, _, _)
ComposeFrom(rest, out, ls) ==
    IF rest = <<>> THEN out
    ELSE LET c == Head(rest) IN
         IF IsCombining(c)
         THEN IF ls > 0 /\ Len(out) = ls /\ Composite(out[ls], c) # NoChar
              THEN ComposeFrom(Tail(rest),
                               [out EXCEPT ![ls] = Composite(out[ls], c)], ls)
              ELSE ComposeFrom(Tail(rest), Append(out, c), ls)
         ELSE ComposeFrom(Tail(rest), Append(out, c), Len(out) + 1)

\* orthography.nfc: unicodedata.normalize("NFC", text)
nfc(text) == ComposeFrom(nfd(text), <<>>, 0)

-----------------------------------------------------------------------------
(* apps/gunaha/orthography.py *)

LATIN_SMALL_LETTER_L_WITH_MIDDLE_TIDLE == "l_tilde"
LATIN_SMALL_LETTER_L_WITH_STROKE == "l_stroke"

\* a version that forgets to make the two l-variants consistent
normalize_orthography_keeps_tilde(tsuutina_word) == nfc(strip(tsuutina_word))

normalize_orthography(tsuutina_word) ==
    replace(nfc(strip(tsuutina_word)),
            LATIN_SMALL_LETTER_L_WITH_MIDDLE_TIDLE,
            LATIN_SMALL_LETTER_L_WITH_STROKE)

\* U+0300 (combining grave) is removed too; it is outside Chars
to_search_form(query) ==
    LET with_diacritics == nfkd(normalize_orthography(lower(query)))
    IN  remove(remove(remove(
            replace(remove(remove(with_diacritics, "apos"), "rsquo"),
                    "l_stroke", "l"),
            "grave"), "acute"), "macron")


-----------------------------------------------------------------------------
(* The search side at rest: the orthography specification never moves it *)

\* Wordform.affix_searcher is <<>> while the class attribute has no value, and
\* <<searcher>> once apps.py has attached one
Unset == <<>>

EmptyStore == [wordforms |-> {}, definitions |-> {}, keywords |-> {}]

NoOutcome ==
    [error |-> "not_called", affix_searched |-> FALSE,
     english_consulted |-> FALSE, cree_results |-> <<>>,
     english_results |-> {}, results |-> <<>>]

SearchIdle ==
    /\ pc = "off"
    /\ table_exists = FALSE
    /\ store = EmptyStore
    /\ affix_searcher = Unset
    /\ in_flight = Unset
    /\ user_query = <<>>
    /\ kwargs = {}
    /\ outcome = NoOutcome

\* a database on which no migration has run
NoDatabase ==
    [migrated |-> FALSE, sources |-> {}, heads |-> {}, definitions |-> {},
     citations |-> {}, duplicates |-> {}]

NoImport == [purge |-> FALSE, error |-> "not_called", imported |-> FALSE]

NoHeadOutcome == [error |-> "not_called", result |-> {}]

DictIdle ==
    /\ database = NoDatabase
    /\ tsv = Unset
    /\ import_outcome = NoImport
    /\ index = {}
    /\ head_query = Unset
    /\ languages = {}
    /\ head_outcome = NoHeadOutcome

-----------------------------------------------------------------------------
(* The orthography specification: every text of up to MaxWordLen characters *)
(* is imported as a head, indexed, and searched for.                        *)

InputChars ==
    {"a", "A", "l", "l_stroke", "l_tilde", "apos", "rsquo", "sp",
     "acute", "a_acute"}

Words == UNION {[1..n -> InputChars] : n \in 0..MaxWordLen}

OrthInit ==
    /\ orth_pc = "input"
    /\ word \in Words
    /\ head_text = <<>>
    /\ head_simplified = <<>>
    /\ query_key = <<>>
    /\ SearchIdle
    /\ DictIdle

\* import_dictionary.prepare_head_from_entry: the head is stored in display form
prepare_head_from_entry ==
    /\ orth_pc = "input"
    /\ head_text' = normalize_orthography(word)
    /\ orth_pc' = "imported"
    /\ UNCHANGED <<word, head_simplified, query_key>>
    /\ UNCHANGED <<searchVars, dictVars>>

\* search_indexes.HeadIndex.prepare_head: the head is indexed in search form
prepare_head ==
    /\ orth_pc = "imported"
    /\ head_simplified' = to_search_form(head_text)
    /\ orth_pc' = "indexed"
    /\ UNCHANGED <<word, head_text, query_key>>
    /\ UNCHANGED <<searchVars, dictVars>>

\* managers.HeadManager._search_in_dictionary_language: the query in search form
search_in_dictionary_language ==
    /\ orth_pc = "indexed"
    /\ query_key' = to_search_form(word)
    /\ orth_pc' = "searched"
    /\ UNCHANGED <<word, head_text, head_simplified>>
    /\ UNCHANGED <<searchVars, dictVars>>

OrthNext ==
    \/ prepare_head_from_entry
    \/ prepare_head
    \/ search_in_dictionary_language

OrthSpec == OrthInit /\ [][OrthNext]_vars

-----------------------------------------------------------------------------
(* Claims about the orthography functions, checked under OrthSpec *)

\* the texts that differ from w only in using U+026B where w uses U+0142, or
\* the other way round
RECURSIVE LVariants(_)
LVariants(w) ==
    IF w = <<>> THEN {<<>>}
    ELSE LET alt == IF Head(w) \in {"l_tilde", "l_stroke"}
                    THEN {"l_tilde", "l_stroke"} ELSE {Head(w)}
         IN  {<<c>> \o t : c \in alt, t \in LVariants(Tail(w))}

\* C1: the search-key transform is idempotent: applying to_search_form to a
\* search key gives that search key back.
C1_SearchFormIdempotent ==
    orth_pc = "searched" => to_search_form(query_key) = query_key

\* C2: two texts that differ only in U+026B against U+0142 have the same
\* display form (normalize_orthography) and the same search key
\* (to_search_form).
C2_LVariantsAgree ==
    orth_pc = "searched" =>
        \A t \in LVariants(word) :
            /\ normalize_orthography(t) = head_text
            /\ to_search_form(t) = query_key

\* C2 witness: a text with U+026B has been normalized, and its display form
\* carries U+0142 in its place
C2_Witness ==
    /\ orth_pc = "searched"
    /\ \E i \in 1..Len(word) : word[i] = "l_tilde"
    /\ \E i \in 1..Len(head_text) : head_text[i] = "l_stroke"
    /\ Cardinality(LVariants(word)) > 1

-----------------------------------------------------------------------------
(* The wordform store (apps/morphodict/models.py: Wordform, Definition,    *)
(* EnglishKeyword).  A foreign key is the id of the row it points to.       *)

\* The configured value (settings.AFFIX_SEARCH_THRESHOLD) is deployment
\* configuration; the model takes a small one so that short texts reach both
\* sides of the comparison in fetch_lemma_by_user_query.
AFFIX_SEARCH_THRESHOLD == 1

Wordform(id, text, analysis, is_lemma, as_is, lemma, pos, lexical_category) ==
    [id |-> id, text |-> text, analysis |-> analysis, is_lemma |-> is_lemma,
     as_is |-> as_is, lemma |-> lemma, pos |-> pos,
     lexical_category |-> lexical_category]

Definition(id, text, wordform) == [id |-> id, text |-> text, wordform |-> wordform]

EnglishKeyword(id, text, lemma) == [id |-> id, text |-> text, lemma |-> lemma]

\* None: a foreign key that has no value (yet)
Null == -1

-----------------------------------------------------------------------------
(* CreeDictionary/DatabaseManager/xml_importer.py: import_xmls.  The rows   *)
(* are built in lists, with ids from counters that start at 1, and then     *)
(* inserted in bulk.  (The importer names the wordform model Inflection.)   *)

\* The entries of crkeng.xml that could not be analysed, as the tuples of
\* as_is_xml_lemma_pos_lc with their generated analysis and definitions; pos
\* and lc are given as normalized.  Phrases: the FST cannot analyse a text
\* with a space.
as_is_xml_lemma_pos_lc ==
    << [xml_lemma |-> <<"a", "sp", "a">>, analysis |-> "a a+N",
        pos |-> "N", lc |-> "", str_definitions |-> <<"whiskers">>],
       [xml_lemma |-> <<"a", "sp", "a", "l">>, analysis |-> "a al+",
        pos |-> "", lc |-> "",
        str_definitions |-> <<"my word", "it is a word">>],
       [xml_lemma |-> <<"a_acute", "sp", "a">>, analysis |-> "a a+V",
        pos |-> "V", lc |-> "", str_definitions |-> <<"it rains">>] >>

\* The analysed entries with what expand_inflections generates for each: a
\* sequence of (generated_analysis, generated_inflections).  The second
\* lemma analysis generates two spellings.
true_lemma_analyses_to_xml_lemma_pos_lc ==
    << [true_lemma_analysis |-> "la+N+I+Sg",
        str_definitions |-> <<"dog">>,
        expanded |->
          << [analysis |-> "la+N+I+Sg", pos |-> "N", lc |-> "NI-1",
              inflections |-> << <<"l_stroke", "a_macron">> >>],
             [analysis |-> "la+N+I+Pl", pos |-> "N", lc |-> "NI-1",
              inflections |-> << <<"l_stroke", "a_macron", "l">> >>] >>],
       [true_lemma_analysis |-> "lal+V+II+Ind+3Sg",
        str_definitions |-> <<"it is so">>,
        expanded |->
          << [analysis |-> "lal+V+II+Ind+3Sg", pos |-> "V", lc |-> "VII-1",
              inflections |-> << <<"l", "a", "l">>, <<"l", "a_acute", "l">> >>] >>] >>

\* engcrk_cree_to_keywords[EngcrkCree(generated_inflection, generated_pos)]
engcrk_cree_to_keywords(generated_inflection) ==
    IF generated_inflection = <<"l_stroke", "a_macron">>
    THEN << <<"a", "l">>, <<"l", "a">> >>
    ELSE IF generated_inflection = <<"l_stroke", "a_macron", "l">>
    THEN << <<"l", "a">> >>
    ELSE <<>>

\* the lists (and the per-analysis lists of ids) before anything is built
NoRows ==
    [db_inflections |-> <<>>, db_definitions |-> <<>>, db_keywords |-> <<>>,
     db_inflections_for_analysis |-> <<>>, db_lemmas |-> <<>>]

\* one Definition per definition string, for one wordform
definitions_for(db, str_definitions, wordform_id) ==
    [db EXCEPT !.db_definitions =
        db.db_definitions \o
        [i \in 1..Len(str_definitions) |->
            Definition(Len(db.db_definitions) + i, str_definitions[i],
                       wordform_id)]]

\* the loop over as_is_xml_lemma_pos_lc: an as-is wordform is a lemma and its
\* own lemma
RECURSIVE import_as_is(_, _)
import_as_is(entries, db) ==
    IF entries = <<>> THEN db
    ELSE LET e == Head(entries)
             inflection_counter == Len(db.db_inflections) + 1
             db_inflection ==
                 [Wordform(inflection_counter, e.xml_lemma, e.analysis, TRUE,
                           TRUE, Null, e.pos, e.lc)
                  EXCEPT !.lemma = inflection_counter]
         IN  import_as_is(
                Tail(entries),
                definitions_for(
                    [db EXCEPT !.db_inflections = Append(@, db_inflection)],
                    e.str_definitions, inflection_counter))

\* the loop over the spellings generated for one analysis
RECURSIVE import_generated_inflections(_, _, _, _)
import_generated_inflections(generated_inflections, g, is_lemma, db) ==
    IF generated_inflections = <<>> THEN db
    ELSE LET text == Head(generated_inflections)
             inflection_counter == Len(db.db_inflections) + 1
             db_inflection ==
                 Wordform(inflection_counter, text, g.analysis, is_lemma,
                          FALSE, Null, g.pos, g.lc)
             english_keywords == engcrk_cree_to_keywords(text)
         IN  import_generated_inflections(
                Tail(generated_inflections), g, is_lemma,
                [db EXCEPT
                    !.db_inflections = Append(@, db_inflection),
                    !.db_keywords =
                        @ \o [i \in 1..Len(english_keywords) |->
                                EnglishKeyword(Len(db.db_keywords) + i,
                                               english_keywords[i],
                                               inflection_counter)],
                    !.db_inflections_for_analysis =
                        Append(@, inflection_counter),
                    !.db_lemmas =
                        IF is_lemma THEN Append(@, inflection_counter) ELSE @])

\* for db_lemma in db_lemmas: one Definition per definition string
RECURSIVE definitions_for_lemmas(_, _, _)
definitions_for_lemmas(db, db_lemmas, str_definitions) ==
    IF db_lemmas = <<>> THEN db
    ELSE definitions_for_lemmas(
            definitions_for(db, str_definitions, Head(db_lemmas)),
            Tail(db_lemmas), str_definitions)

\* the loop over expanded[true_lemma_analysis]
RECURSIVE import_expanded(_, _, _)
import_expanded(expanded, e, db) ==
    IF expanded = <<>> THEN db
    ELSE LET g == Head(expanded)
             is_lemma == g.analysis = e.true_lemma_analysis
             with_inflections ==
                 import_generated_inflections(g.inflections, g, is_lemma, db)
         IN  import_expanded(
                Tail(expanded), e,
                IF is_lemma
                THEN definitions_for_lemmas(with_inflections,
                                            with_inflections.db_lemmas,
                                            e.str_definitions)
                ELSE with_inflections)

\* a version without the loop that sets the lemma of the generated wordforms
assign_lemma_forgotten(db_inflections, db_inflections_for_analysis, db_lemmas) ==
    db_inflections

\* for inflection in db_inflections_for_analysis:
\*     inflection.lemma = db_lemmas[0]
assign_lemma(db_inflections, db_inflections_for_analysis, db_lemmas) ==
    [i \in 1..Len(db_inflections) |->
        IF \E j \in 1..Len(db_inflections_for_analysis) :
              db_inflections_for_analysis[j] = db_inflections[i].id
        THEN [db_inflections[i] EXCEPT !.lemma = db_lemmas[1]]
        ELSE db_inflections[i]]

\* the loop over true_lemma_analyses_to_xml_lemma_pos_lc
RECURSIVE import_analysed(_, _)
import_analysed(entries, db) ==
    IF entries = <<>> THEN db
    ELSE LET e == Head(entries)
             built == import_expanded(
                         e.expanded, e,
                         [db EXCEPT !.db_inflections_for_analysis = <<>>,
                                    !.db_lemmas = <<>>])
         IN  import_analysed(
                Tail(entries),
                [built EXCEPT !.db_inflections =
                    assign_lemma(built.db_inflections,
                                 built.db_inflections_for_analysis,
                                 built.db_lemmas)])

Range(s) == {s[i] : i \in 1..Len(s)}

\* import_xmls: the database after clear_database and the three bulk_create
import_xmls(as_is_entries, analysed_entries) ==
    LET db == import_analysed(analysed_entries,
                              import_as_is(as_is_entries, NoRows))
    IN  [wordforms |-> Range(db.db_inflections),
         definitions |-> Range(db.db_definitions),
         keywords |-> Range(db.db_keywords)]

\* the entries of seq at the positions in chosen, in the order of seq
RECURSIVE Pick(_, _)
Pick(seq, chosen) ==
    IF seq = <<>> THEN <<>>
    ELSE (IF Len(seq) \in chosen THEN Pick(SubSeq(seq, 1, Len(seq) - 1), chosen)
                                      \o <<seq[Len(seq)]>>
          ELSE Pick(SubSeq(seq, 1, Len(seq) - 1), chosen))

\* the databases an import can leave: one for every choice of entries in the
\* two xml files
Stores ==
    {import_xmls(Pick(as_is_xml_lemma_pos_lc, a),
                 Pick(true_lemma_analyses_to_xml_lemma_pos_lc, b)) :
        a \in SUBSET (1..Len(as_is_xml_lemma_pos_lc)),
        b \in SUBSET (1..Len(true_lemma_analyses_to_xml_lemma_pos_lc))}

\* Wordform.objects.get(id = id)
WordformById(wordforms, id) == CHOOSE w \in wordforms : w.id = id

\* the ids of a set of rows, in ascending order
RECURSIVE SortedIds(_)
SortedIds(ids) ==
    IF ids = {} THEN <<>>
    ELSE LET m == CHOOSE x \in ids : \A y \in ids : x <= y
         IN  <<m>> \o SortedIds(ids \ {m})

\* tuple(wordform.definitions.all()): the definitions of a wordform, as the
\* tuple of their ids in primary-key order
definitions_all(st, wordform_id) ==
    SortedIds({d.id : d \in {x \in st.definitions : x.wordform = wordform_id}})

-----------------------------------------------------------------------------
(* apps/morphodict/apps.py: the affix index *)

cree_letter_to_ascii(c) ==
    CASE c = "a_circ"   -> "a"
      [] c = "a_macron" -> "a"
      [] OTHER          -> c

\* "".join([cree_letter_to_ascii.get(c, c) for c in text.lower()])
IndexedText(text) ==
    LET lowered == lower(text)
    IN  [i \in 1..Len(lowered) |-> cree_letter_to_ascii(lowered[i])]

\* a version that indexes every wordform, not only the lemmas
lowered_no_diacritics_text_with_id_all(wordforms) ==
    {<<IndexedText(w.text), w.id>> : w \in wordforms}

\* the (text, id) pairs of Wordform.objects.filter(is_lemma=True)
lowered_no_diacritics_text_with_id(wordforms) ==
    {<<IndexedText(w.text), w.id>> : w \in {x \in wordforms : x.is_lemma}}

Reverse(s) == [i \in 1..Len(s) |-> s[Len(s) + 1 - i]]

Prefixes(s) == {SubSeq(s, 1, n) : n \in 0..Len(s)}

\* a trie over (text, id) pairs: every prefix of an indexed text leads to the
\* ids of the texts below it
Trie(words) ==
    [p \in UNION {Prefixes(w[1]) : w \in words} |->
        {w[2] : w \in {x \in words : p \in Prefixes(x[1])}}]

\* AffixSearcher(words): a trie of the texts and a trie of the reversed texts
AffixSearcher(words) ==
    [trie |-> Trie(words),
     inverse_trie |-> Trie({<<Reverse(w[1]), w[2]>> : w \in words})]

search_by_prefix(searcher, prefix) ==
    IF prefix \in DOMAIN searcher.trie THEN searcher.trie[prefix] ELSE {}

search_by_suffix(searcher, suffix) ==
    IF Reverse(suffix) \in DOMAIN searcher.inverse_trie
    THEN searcher.inverse_trie[Reverse(suffix)] ELSE {}

-----------------------------------------------------------------------------
(* apps/morphodict/models.py: Wordform.fetch_lemma_by_user_query *)

\* the names a Wordform queryset can filter on: the fields of the model and
\* the reverse names of the relations that point to it
WordformFields ==
    {"id", "text", "lexical_category", "pos", "analysis", "is_lemma", "as_is",
     "lemma", "lemma_id", "inflections", "definitions", "english_keyword"}

\* the names an EnglishKeyword queryset can filter on
EnglishKeywordFields == {"id", "text", "lemma", "lemma_id"}

\* the field names of Q(pos="IPV") | Q(full_lc="IPV") | Q(pos="PRON")
ClosedClassLookups == {"pos", "full_lc"}

\* **kwargs, the "additional fields to disambiguate", as a set of
\* <<field name, value>>: none, a field of Wordform, a name that is no field
Disambiguators == { {}, {<<"pos", "N">>}, {<<"nosuchfield", "x">>} }

\* the keyword names of **kwargs
names(kw) == {p[1] : p \in kw}

\* a row passes filter(**kwargs); a name that is no field selects nothing
\* (filter() has raised before any row is looked at)
passes(row, kw) == \A p \in kw : p[1] \in DOMAIN row /\ row[p[1]] = p[2]

CreeResult(analysis, normatized_cree, lemma) ==
    [analysis |-> analysis, normatized_cree |-> normatized_cree, lemma |-> lemma]

EnglishResult(matched_english, matched_cree, lemma) ==
    [matched_english |-> matched_english, matched_cree |-> matched_cree,
     lemma |-> lemma]

\* strip, NFC, macron to circumflex, lower (in this order)
normalize_user_query(q) ==
    lower(replace(nfc(strip(q)), "a_macron", "a_circ"))

\* A collection of results is a function from the results it holds to the
\* number of times each is held; a Python set holds each once.
\* Here every hit of the prefix list and every hit of the suffix list is
\* appended to a list instead of being added to a set.
affix_cree_results_per_hit(ids_by_prefix, ids_by_suffix, wordforms) ==
    LET hits == {w \in wordforms : w.id \in ids_by_prefix \cup ids_by_suffix}
        of(r) == CHOOSE w \in hits : r = CreeResult(w.analysis, w.id, w.lemma)
    IN  [r \in {CreeResult(w.analysis, w.id, w.lemma) : w \in hits} |->
            (IF of(r).id \in ids_by_prefix THEN 1 ELSE 0)
          + (IF of(r).id \in ids_by_suffix THEN 1 ELSE 0)]

\* for wf in Wordform.objects.filter(id__in=set(chain(prefix, suffix))):
\*     cree_results.add(CreeResult(wf.analysis, wf, wf.lemma))
affix_cree_results(ids_by_prefix, ids_by_suffix, wordforms) ==
    LET hits == {w \in wordforms : w.id \in ids_by_prefix \cup ids_by_suffix}
    IN  [r \in {CreeResult(w.analysis, w.id, w.lemma) : w \in hits} |-> 1]

\* there is no FST, so there are no analyses
fst_analyses == {}

\* the loop over fst_analyses: the wordforms with exactly that analysis,
\* as_is = False and the disambiguators; an analysis without one is logged and
\* skipped
analysis_cree_results(analyses, wordforms, kw) ==
    {CreeResult(w.analysis, w.id, w.lemma) :
        w \in {x \in wordforms :
                 x.analysis \in analyses /\ ~x.as_is /\ passes(x, kw)}}

\* cree_results.add(...) for every result of the loop
add_all(collection, results) ==
    [r \in DOMAIN collection \cup results |->
        IF r \in DOMAIN collection THEN collection[r] ELSE 1]

\* EnglishKeyword.objects.filter(text__iexact=user_query, **kwargs)
\*     .values("lemma__id")
lemma_ids(keywords, uq, kw) ==
    {k.lemma : k \in {x \in keywords :
                        lower(x.text) = lower(uq) /\ passes(x, kw)}}

\* the first English loop: the wordforms among lemma_ids with as_is = False
english_results_of(st, uq, kw) ==
    {EnglishResult(uq, w.id, w.id) :
        w \in {x \in st.wordforms :
                 /\ x.id \in lemma_ids(st.keywords, uq, kw)
                 /\ ~x.as_is
                 /\ passes(x, kw)}}

\* the second English loop: the as_is wordforms among lemma_ids that are
\* preverbs or pronouns
closed_class_results_of(st, uq, kw) ==
    {EnglishResult(uq, w.id, w.id) :
        w \in {x \in st.wordforms :
                 /\ x.id \in lemma_ids(st.keywords, uq, kw)
                 /\ x.as_is
                 /\ passes(x, kw)
                 /\ (x.pos = "IPV" \/ x.lexical_category = "IPV" \/ x.pos = "PRON")}}

\* the call raised: nothing is returned
Raised(error, affix_searched, english_consulted) ==
    [error |-> error, affix_searched |-> affix_searched,
     english_consulted |-> english_consulted, cree_results |-> <<>>,
     english_results |-> {}, results |-> <<>>]

\* searcher_243 and searcher_244 are what the two reads of
\* Wordform.affix_searcher (lines 243 and 244) gave.  Every filter() checks its
\* keyword names when it is called; the database is read when a queryset is
\* iterated.
fetch_lemma_by_user_query(q, kw, st, exists, searcher_243, searcher_244) ==
    LET uq == normalize_user_query(q)
        affix == Len(uq) > AFFIX_SEARCH_THRESHOLD
        whole_word == "sp" \notin {uq[i] : i \in 1..Len(uq)}
    IN  IF affix /\ searcher_243 = Unset
        THEN Raised("AttributeError", FALSE, FALSE)
        ELSE IF affix /\ searcher_244 = Unset
        THEN Raised("AttributeError", TRUE, FALSE)
        ELSE IF affix /\ ~exists
        THEN Raised("OperationalError", TRUE, FALSE)
        ELSE IF fst_analyses # {} /\ ~(names(kw) \subseteq WordformFields)
        THEN Raised("FieldError", affix, FALSE)
        ELSE
        LET by_affix ==
                IF affix
                THEN affix_cree_results(search_by_prefix(searcher_243[1], uq),
                                        search_by_suffix(searcher_244[1], uq),
                                        st.wordforms)
                ELSE <<>>
            cree == add_all(by_affix,
                            analysis_cree_results(fst_analyses, st.wordforms, kw))
        IN  IF ~whole_word
            THEN [error |-> "none", affix_searched |-> affix,
                  english_consulted |-> FALSE, cree_results |-> cree,
                  english_results |-> {}, results |-> <<>>]
            ELSE IF ~(names(kw) \subseteq EnglishKeywordFields)
            THEN Raised("FieldError", affix, TRUE)
            ELSE IF ~(names(kw) \subseteq WordformFields)
            THEN Raised("FieldError", affix, TRUE)
            ELSE IF ~exists
            THEN Raised("OperationalError", affix, TRUE)
            ELSE IF ~(ClosedClassLookups \subseteq WordformFields)
            THEN Raised("FieldError", affix, TRUE)
            ELSE [error |-> "none", affix_searched |-> affix,
                  english_consulted |-> TRUE, cree_results |-> cree,
                  english_results |-> english_results_of(st, uq, kw)
                                      \cup closed_class_results_of(st, uq, kw),
                  results |-> <<>>]

-----------------------------------------------------------------------------
(* apps/morphodict/models.py: Wordform.search and the ranking *)

SearchResult(matched_text, matched_by, is_head, lemma_wordform, definitions) ==
    [matched_text |-> matched_text, matched_by |-> matched_by,
     is_head |-> is_head, lemma_wordform |-> lemma_wordform,
     linguistic_breakdown_head |-> <<>>, linguistic_breakdown_tail |-> <<>>,
     definitions |-> definitions]

\* "TODO: implement this!"
sort_search_result(res_a, res_b, query) == 0

\* bisect_right over the keys of cmp_to_key: K(a) < K(b) iff cmp(a, b) < 0;
\* lo and hi count from 0
RECURSIVE bisect_right(_, _, _, _, _)
bisect_right(list, value, lo, hi, query) ==
    IF lo >= hi THEN lo
    ELSE LET mid == (lo + hi) \div 2
         IN  IF sort_search_result(value, list[mid + 1], query) < 0
             THEN bisect_right(list, value, lo, mid, query)
             ELSE bisect_right(list, value, mid + 1, hi, query)

\* a set that would hold one value per rank: a value ranked equal to one
\* already held is dropped
SortedSet_add_one_per_rank(list, value, query) ==
    IF \E i \in 1..Len(list) : sort_search_result(list[i], value, query) = 0
    THEN list
    ELSE list \o <<value>>

\* SortedSet.add: a value the set holds already is dropped, a new one goes
\* where bisect_right puts it
SortedSet_add(list, value, query) ==
    IF \E i \in 1..Len(list) : list[i] = value THEN list
    ELSE LET at == bisect_right(list, value, 0, Len(list), query)
         IN  SubSeq(list, 1, at) \o <<value>> \o SubSeq(list, at + 1, Len(list))

RECURSIVE add_in_order(_, _, _)
add_in_order(list, values, query) ==
    IF values = <<>> THEN list
    ELSE add_in_order(SortedSet_add(list, Head(values), query), Tail(values), query)

\* the SearchResult made of a CreeResult
cree_search_result(st, r) ==
    SearchResult(WordformById(st.wordforms, r.normatized_cree).text, "crk", TRUE,
                 r.lemma, definitions_all(st, r.normatized_cree))

\* the SearchResult made of an EnglishResult
english_search_result(st, r) ==
    SearchResult(WordformById(st.wordforms, r.matched_cree).text, "eng", TRUE,
                 WordformById(st.wordforms, r.matched_cree).lemma,
                 definitions_all(st, r.matched_cree))

\* the orders in which a Python set can hand out its elements
Orderings(S) ==
    {s \in [1..Cardinality(S) -> S] : {s[i] : i \in 1..Cardinality(S)} = S}

\* Wordform.search, given the fetched results and the order in which the two
\* sets are iterated
search(q, st, fetched, cree_order, english_order) ==
    IF fetched.error # "none" THEN fetched
    ELSE [fetched EXCEPT !.results =
            add_in_order(
                add_in_order(<<>>,
                             [i \in 1..Len(cree_order) |->
                                 cree_search_result(st, cree_order[i])], q),
                [i \in 1..Len(english_order) |->
                    english_search_result(st, english_order[i])], q)]

-----------------------------------------------------------------------------
(* The search specification *)

Queries ==
    { <<"a", "sp", "a">>, <<"A", "sp", "a", "tab">>, <<"a_acute", "sp", "a">>,
      <<"a", "l">>, <<"A", "l">>, <<"l", "a">>, <<"a", "tab", "l">>,
      <<"l", "sp", "l">>, <<"l", "l">>, <<"a">>, <<"l_stroke", "a_macron">>,
      <<"l_stroke", "a">>, <<"a", "apos">> }

OrthIdle ==
    /\ orth_pc = "off"
    /\ word = <<>>
    /\ head_text = <<>>
    /\ head_simplified = <<>>
    /\ query_key = <<>>

Init ==
    /\ OrthIdle
    /\ DictIdle
    /\ pc = "starting"
    /\ table_exists \in BOOLEAN
    /\ store \in (IF table_exists THEN Stores ELSE {EmptyStore})
    /\ affix_searcher = Unset
    /\ in_flight = Unset
    /\ user_query = <<>>
    /\ kwargs = {}
    /\ outcome = NoOutcome

\* initialize_affix_search: the value of Wordform.affix_searcher when it
\* returns; an OperationalError (no wordform table yet) ends it without an
\* index
initialize_affix_search ==
    IF table_exists
    THEN <<AffixSearcher(lowered_no_diacritics_text_with_id(store.wordforms))>>
    ELSE affix_searcher

\* MorphoDictConfig.ready
ready ==
    /\ pc = "starting"
    /\ pc' = "serving"
    /\ affix_searcher' = initialize_affix_search
    /\ UNCHANGED <<table_exists, store, in_flight, user_query, kwargs, outcome>>
    /\ UNCHANGED <<orthVars, dictVars>>

\* the tables are migrated and the dictionary imported by another process
\* (manage.py), while this one has them missing
migrate_and_import ==
    /\ ~table_exists
    /\ table_exists' = TRUE
    /\ store' \in Stores
    /\ UNCHANGED <<pc, affix_searcher, in_flight, user_query, kwargs, outcome>>
    /\ UNCHANGED <<orthVars, dictVars>>

\* Wordform.search(q, **kw) from the second read of Wordform.affix_searcher
\* to its end; searcher_243 is what the first read gave
search_returns(q, kw, searcher_243) ==
    /\ user_query' = q
    /\ kwargs' = kw
    /\ LET fetched == fetch_lemma_by_user_query(q, kw, store, table_exists,
                                                searcher_243, affix_searcher)
       IN  \E cree_order \in Orderings(DOMAIN fetched.cree_results),
              english_order \in Orderings(fetched.english_results) :
                outcome' = search(q, store, fetched, cree_order, english_order)

\* a version of the call that builds the index itself when it runs
Search_attaching(q, kw) ==
    /\ pc = "serving"
    /\ in_flight = Unset
    /\ search_returns(q, kw, affix_searcher)
    /\ affix_searcher' = initialize_affix_search
    /\ UNCHANGED <<pc, table_exists, store, in_flight>>
    /\ UNCHANGED <<orthVars, dictVars>>

\* one call of Wordform.search(q, **kw), with nothing else running
Search(q, kw) ==
    /\ pc = "serving"
    /\ in_flight = Unset
    /\ search_returns(q, kw, affix_searcher)
    /\ UNCHANGED <<pc, table_exists, store, affix_searcher, in_flight>>
    /\ UNCHANGED <<orthVars, dictVars>>

Next ==
    \/ ready
    \/ migrate_and_import
    \/ \E q \in Queries, kw \in Disambiguators : Search(q, kw)

Spec == Init /\ [][Next]_vars

-----------------------------------------------------------------------------
(* Claims about the affix index and the search, checked under Spec *)

MaxAffixQueryLen == 3

StartsWith(text, q) == Len(q) <= Len(text) /\ SubSeq(text, 1, Len(q)) = q

EndsWith(text, q) ==
    Len(q) <= Len(text) /\ SubSeq(text, Len(text) - Len(q) + 1, Len(text)) = q

AffixQueries ==
    UNION {[1..n -> {"a", "l", "sp", "a_acute", "l_stroke"}] :
              n \in 0..MaxAffixQueryLen}

Lemmas(st) == {w \in st.wordforms : w.is_lemma}

HasWhitespace(q) == \E i \in 1..Len(q) : IsSpace(q[i])

\* a step that is one call of Wordform.search
SearchStep == \E q \in Queries, kw \in Disambiguators : Search(q, kw)

MatchesInSearchKeyForm(out, q, st) ==
    \A L \in Lemmas(st) :
        LET key == to_search_form(q)
        IN  (/\ Len(key) > AFFIX_SEARCH_THRESHOLD
             /\ \/ StartsWith(to_search_form(L.text), key)
                \/ EndsWith(to_search_form(L.text), key))
            => \E i \in 1..Len(out.results) :
                  /\ out.results[i].matched_text = L.text
                  /\ out.results[i].definitions = definitions_all(st, L.id)

C4_MatchesInSearchKeyForm ==
    [][SearchStep => MatchesInSearchKeyForm(outcome', user_query', store')]_vars

\* C5 (as claimed): for a query without whitespace that equals, ignoring
\* case, the text of an EnglishKeyword bound to a non-as_is lemma L, the
\* result holds a SearchResult matched by English with L's text and L's
\* definitions.
KeywordHitReturned(out, q, st) ==
    \A k \in st.keywords :
        LET L == WordformById(st.wordforms, k.lemma)
        IN  (~HasWhitespace(q) /\ lower(q) = lower(k.text) /\ ~L.as_is)
            => \E i \in 1..Len(out.results) :
                  /\ out.results[i].matched_by = "eng"
                  /\ out.results[i].matched_text = L.text
                  /\ out.results[i].definitions = definitions_all(st, L.id)

C5_KeywordHitReturned ==
    [][SearchStep => KeywordHitReturned(outcome', user_query', store')]_vars

\* C6 (as claimed): a query with interior whitespace of any kind (after
\* trimming) never consults the EnglishKeyword table and has no English
\* results; a query without whitespace does consult it.
EnglishGatedOnWhitespace(out, q) ==
    /\ HasWhitespace(strip(q)) =>
          ~out.english_consulted /\ out.english_results = {}
    /\ ~HasWhitespace(strip(q)) => out.english_consulted

C6_EnglishGatedOnWhitespace ==
    [][SearchStep => EnglishGatedOnWhitespace(outcome', user_query')]_vars

\* C7: the Cree result set holds each (analysis, matched, lemma) triple once,
\* and a stored wordform reached more than once by one call contributes
\* exactly one triple.
OneTriplePerWordform(out, st) ==
    out.error = "none" =>
        /\ \A r \in DOMAIN out.cree_results : out.cree_results[r] = 1
        /\ \A w \in st.wordforms :
              Cardinality({r \in DOMAIN out.cree_results :
                              r.normatized_cree = w.id}) <= 1

C7_OneTriplePerWordform ==
    [][SearchStep => OneTriplePerWordform(outcome', store')]_vars

\* C7 witness: a call has returned in which one wordform was in the prefix
\* hits and in the suffix hits, and the Cree results hold it once
C7_Witness ==
    /\ outcome.error = "none"
    /\ affix_searcher # Unset
    /\ LET uq == normalize_user_query(user_query)
       IN  \E w \in store.wordforms :
              /\ w.id \in search_by_prefix(affix_searcher[1], uq)
              /\ w.id \in search_by_suffix(affix_searcher[1], uq)
              /\ Cardinality({r \in DOMAIN outcome.cree_results :
                                 r.normatized_cree = w.id}) = 1
              /\ \A r \in DOMAIN outcome.cree_results :
                    outcome.cree_results[r] = 1

\* C8 (as claimed): two calls with the same query and the same Cree and
\* English result sets give the same sequence of SearchResults, whatever the
\* order in which the sets hand out their elements.
C8_RankingDeterministic ==
    [][(/\ SearchStep
        /\ outcome.error = "none" /\ outcome'.error = "none"
        /\ user_query' = user_query /\ kwargs' = kwargs
        /\ outcome'.cree_results = outcome.cree_results
        /\ outcome'.english_results = outcome.english_results)
       => outcome'.results = outcome.results]_vars

\* a comes before b
Before(a, b, q) == sort_search_result(a, b, q) < 0

\* C9 (as claimed): on the SearchResults of a call, the comparator is a strict
\* total order: of two distinct results exactly one comes before the other,
\* and the relation is transitive.
StrictTotalOrder(out, q) ==
    LET R == {out.results[i] : i \in 1..Len(out.results)}
    IN  /\ \A a, b \in R : a # b => (Before(a, b, q) /\ ~Before(b, a, q))
                                    \/ (Before(b, a, q) /\ ~Before(a, b, q))
        /\ \A a \in R : ~Before(a, a, q)
        /\ \A a, b, c \in R :
              Before(a, b, q) /\ Before(b, c, q) => Before(a, c, q)

C9_StrictTotalOrder ==
    [][SearchStep => StrictTotalOrder(outcome', user_query')]_vars

\* nothing in the store matches q: no wordform by prefix or suffix, neither
\* as indexed nor in search-key form, and no keyword
MatchesNothing(q, st) ==
    /\ \A w \in st.wordforms :
          /\ ~StartsWith(IndexedText(w.text), normalize_user_query(q))
          /\ ~EndsWith(IndexedText(w.text), normalize_user_query(q))
          /\ ~StartsWith(to_search_form(w.text), to_search_form(q))
          /\ ~EndsWith(to_search_form(w.text), to_search_form(q))
    /\ \A k \in st.keywords : lower(k.text) # lower(strip(q))

\* C10 (as claimed): a query that matches nothing gives the empty ordered
\* result and no error.
EmptyNotError(out, q, st) ==
    MatchesNothing(q, st) => out.error = "none" /\ out.results = <<>>

C10_EmptyNotError ==
    [][SearchStep => EmptyNotError(outcome', user_query', store')]_vars

\* C11 (as claimed): a call whose query has a search key of at most
\* AFFIX_SEARCH_THRESHOLD characters never invokes search_by_prefix or
\* search_by_suffix, and its Cree results hold exact-analysis matches only.
AffixGatedOnSearchKey(out, q, kw, st) ==
    Len(to_search_form(q)) <= AFFIX_SEARCH_THRESHOLD =>
        /\ ~out.affix_searched
        /\ out.error = "none" =>
              DOMAIN out.cree_results \subseteq
                  analysis_cree_results(fst_analyses, st.wordforms, kw)

C11_AffixGatedOnSearchKey ==
    [][SearchStep =>
          AffixGatedOnSearchKey(outcome', user_query', kwargs', store')]_vars

\* C12 (as claimed): once ready has returned and searches are served, the
\* affix index is attached to Wordform, also when the wordform table could
\* not be read during start-up.
C12_IndexAttachedWhenServing ==
    pc = "serving" => affix_searcher # Unset

-----------------------------------------------------------------------------
(* Searches that run while the dictionary is imported again and the index   *)
(* is built again.  Wordform.search reads the class attribute               *)
(* Wordform.affix_searcher twice (models.py lines 243 and 244); another     *)
(* thread can run between the two reads.                                    *)

MaxConcEntries == 2

ConcStores ==
    {import_xmls(Pick(as_is_xml_lemma_pos_lc, a), <<>>) :
        a \in SUBSET (1..MaxConcEntries)}

ConcQueries == { <<"a", "sp", "a">>, <<"a", "sp", "a", "l">> }

ConcInit ==
    /\ OrthIdle
    /\ DictIdle
    /\ pc = "starting"
    /\ table_exists = TRUE
    /\ store \in ConcStores
    /\ affix_searcher = Unset
    /\ in_flight = Unset
    /\ user_query = <<>>
    /\ kwargs = {}
    /\ outcome = NoOutcome

\* import_xmls run again (manage.py) while the process is live
reimport ==
    /\ table_exists
    /\ store' \in ConcStores \ {store}
    /\ UNCHANGED <<pc, table_exists, affix_searcher, in_flight, user_query,
                   kwargs, outcome>>
    /\ UNCHANGED <<orthVars, dictVars>>

\* initialize_affix_search called again while searches are served
rebuild ==
    /\ pc = "serving"
    /\ affix_searcher' = initialize_affix_search
    /\ UNCHANGED <<pc, table_exists, store, in_flight, user_query, kwargs,
                   outcome>>
    /\ UNCHANGED <<orthVars, dictVars>>

\* Wordform.search(q, **kw) up to the first read of Wordform.affix_searcher;
\* a query that is too short for the affix search does not read it
search_begins(q, kw) ==
    /\ pc = "serving"
    /\ in_flight = Unset
    /\ in_flight' =
          << [query |-> q, kwargs |-> kw,
              searcher_243 |->
                  IF Len(normalize_user_query(q)) > AFFIX_SEARCH_THRESHOLD
                  THEN affix_searcher ELSE Unset] >>
    /\ UNCHANGED <<pc, table_exists, store, affix_searcher, user_query,
                   kwargs, outcome>>
    /\ UNCHANGED <<orthVars, dictVars>>

\* the rest of that call
search_ends ==
    /\ in_flight # Unset
    /\ search_returns(in_flight[1].query, in_flight[1].kwargs,
                      in_flight[1].searcher_243)
    /\ in_flight' = Unset
    /\ UNCHANGED <<pc, table_exists, store, affix_searcher>>
    /\ UNCHANGED <<orthVars, dictVars>>

ConcNext ==
    \/ ready
    \/ reimport
    \/ rebuild
    \/ \E q \in ConcQueries, kw \in Disambiguators : search_begins(q, kw)
    \/ search_ends

ConcSpec == ConcInit /\ [][ConcNext]_vars

\* the index that initialize_affix_search builds of a store
IndexOf(st) == AffixSearcher(lowered_no_diacritics_text_with_id(st.wordforms))

\* C13 (as claimed): a search that runs while the index is built again uses
\* one index, the complete old one or the complete new one, and every index
\* it reads holds all the lemmas of one import.
ObservesOneCompleteIndex(call, searcher_244) ==
    call.searcher_243 # Unset =>
        /\ call.searcher_243 = searcher_244
        /\ \E st \in ConcStores : searcher_244[1] = IndexOf(st)

-----------------------------------------------------------------------------
(* Further claims about the search, checked under Spec *)

\* what a call that returned gave, without the order of the results
Returned(out) ==
    [error |-> out.error, cree_results |-> out.cree_results,
     english_results |-> out.english_results, results |-> Range(out.results)]

\* what the query, the disambiguators, the store and the index determine
Determined(q, kw, st, exists, searcher) ==
    LET fetched == fetch_lemma_by_user_query(q, kw, st, exists, searcher,
                                             searcher)
    IN  [error |-> fetched.error, cree_results |-> fetched.cree_results,
         english_results |-> fetched.english_results,
         results |->
            IF fetched.error # "none" THEN {}
            ELSE {cree_search_result(st, r) : r \in DOMAIN fetched.cree_results}
                 \cup {english_search_result(st, r) :
                          r \in fetched.english_results}]

NoNullLemma(out, q, kw, st, searcher) ==
    LET uq == normalize_user_query(q)
        collected ==
            IF searcher # Unset /\ Len(uq) > AFFIX_SEARCH_THRESHOLD
            THEN DOMAIN affix_cree_results(
                            search_by_prefix(searcher[1], uq),
                            search_by_suffix(searcher[1], uq), st.wordforms)
            ELSE {}
    IN  /\ \A r \in collected \cup DOMAIN out.cree_results : r.lemma # Null
        /\ \A r \in english_results_of(st, uq, kw)
                    \cup closed_class_results_of(st, uq, kw)
                    \cup out.english_results : r.lemma # Null
        /\ \A i \in 1..Len(out.results) : out.results[i].lemma_wordform # Null

C15_NoNullLemma ==
    [][SearchStep =>
          NoNullLemma(outcome', user_query', kwargs', store',
                      affix_searcher')]_vars

\* C15 witness: a call has returned a result for a wordform of an imported
\* store in which one analysis generated two lemma spellings and an
\* inflection has another wordform as its lemma
C15_Witness ==
    /\ outcome.error = "none"
    /\ \E i \in 1..Len(outcome.results) :
          \E w \in store.wordforms : outcome.results[i].lemma_wordform = w.id
    /\ \E w \in store.wordforms : ~w.is_lemma /\ w.lemma # w.id
    /\ \E w \in store.wordforms : w.is_lemma /\ ~w.as_is /\ w.lemma # w.id

-----------------------------------------------------------------------------
(* The wordform table as Wordform.save and the bulk importer fill it *)

MaxSaved == 2

\* the instances handed to save(); analysis, as_is, pos and category keep
\* their defaults
SavedTexts == { <<"a">>, <<"l", "a">> }

\* the rows that save() stored since the last import
Saved(st) == {w \in st.wordforms : w.analysis = ""}

StoreInit ==
    /\ OrthIdle
    /\ DictIdle
    /\ pc = "off"
    /\ table_exists = TRUE
    /\ store = EmptyStore
    /\ affix_searcher = Unset
    /\ in_flight = Unset
    /\ user_query = <<>>
    /\ kwargs = {}
    /\ outcome = NoOutcome

\* Wordform.objects.aggregate(Max("id"))
max_id(wordforms) ==
    IF wordforms = {} THEN Null
    ELSE CHOOSE m \in {w.id : w \in wordforms} :
            \A w \in wordforms : w.id <= m

\* Wordform(text=text, is_lemma=is_lemma, lemma_id=lemma).save(): the id is
\* the next one, a lemma is made its own lemma; a row without a lemma is
\* refused by the database (the column is NOT NULL)
Wordform_save(text, is_lemma, lemma) ==
    /\ table_exists
    /\ Cardinality(Saved(store)) < MaxSaved
    /\ LET id == IF max_id(store.wordforms) = Null THEN 0
                 ELSE max_id(store.wordforms) + 1
           lemma_id == IF is_lemma THEN id ELSE lemma
       IN  store' =
              IF lemma_id = Null THEN store
              ELSE [store EXCEPT !.wordforms =
                      @ \cup {Wordform(id, text, "", is_lemma, FALSE,
                                       lemma_id, "", "")}]
    /\ UNCHANGED <<pc, table_exists, affix_searcher, in_flight, user_query,
                   kwargs, outcome>>
    /\ UNCHANGED <<orthVars, dictVars>>

\* import_xmls(dir_name): the tables are cleared and filled from the files
bulk_import ==
    /\ table_exists
    /\ store' \in Stores
    /\ UNCHANGED <<pc, table_exists, affix_searcher, in_flight, user_query,
                   kwargs, outcome>>
    /\ UNCHANGED <<orthVars, dictVars>>

StoreNext ==
    \/ bulk_import
    \/ \E text \in SavedTexts, is_lemma \in BOOLEAN,
          lemma \in {w.id : w \in store.wordforms} \cup {Null} :
            Wordform_save(text, is_lemma, lemma)

StoreSpec == StoreInit /\ [][StoreNext]_vars

\* C16 (as claimed): every stored wordform points to exactly one stored
\* lemma, and a wordform with is_lemma = true points to itself.
C16_LemmaIsSelf ==
    \A w \in store.wordforms :
        /\ Cardinality({l \in store.wordforms : l.id = w.lemma}) = 1
        /\ w.is_lemma => w.lemma = w.id

-----------------------------------------------------------------------------
(* Claims about disambiguators, analyses and the English path, under Spec *)

\* the CreeResults that lines 241-249 collect, whether or not the call raises
\* afterwards
CollectedByAffix(q, st, searcher) ==
    LET uq == normalize_user_query(q)
    IN  IF searcher # Unset /\ Len(uq) > AFFIX_SEARCH_THRESHOLD
        THEN DOMAIN affix_cree_results(search_by_prefix(searcher[1], uq),
                                       search_by_suffix(searcher[1], uq),
                                       st.wordforms)
        ELSE {}

\* C17 (as claimed): a call with a disambiguator whose name is no field is
\* rejected with an error, whatever the query.
UnknownDisambiguatorRejected(out, kw) ==
    (\E p \in kw : p[1] \notin WordformFields) => out.error # "none"

C17_UnknownDisambiguatorRejected ==
    [][SearchStep => UnknownDisambiguatorRejected(outcome', kwargs')]_vars

\* C18 (as claimed): an analysis without a stored wordform does not abort the
\* call, and with no analyses at all a call with valid disambiguators returns
\* exactly the affix results and the English-keyword results.
DegradesToAffixAndEnglish(out, q, kw, st, searcher) ==
    LET uq == normalize_user_query(q)
    IN  (names(kw) \subseteq WordformFields /\ fst_analyses = {}) =>
            /\ out.error = "none"
            /\ DOMAIN out.cree_results = CollectedByAffix(q, st, searcher)
            /\ out.english_results =
                  IF HasWhitespace(uq) THEN {}
                  ELSE english_results_of(st, uq, kw)
                       \cup closed_class_results_of(st, uq, kw)

C18_DegradesToAffixAndEnglish ==
    [][SearchStep =>
          DegradesToAffixAndEnglish(outcome', user_query', kwargs', store',
                                    affix_searcher')]_vars

\* preverb or pronoun
ClosedClass(w) == w.pos \in {"IPV", "PRON"} \/ w.lexical_category = "IPV"

\* the lemma ids of the keywords that equal the query, ignoring case
Owning(q, st) ==
    {k.lemma : k \in {x \in st.keywords : lower(x.text) = lower(strip(q))}}

\* C19 (as claimed): for a query that hits an English keyword, the English
\* results are exactly the non-as_is wordforms among the owning lemma ids and
\* the closed-class as_is wordforms among them.
KeywordHitResults(out, q, kw, st) ==
    (kw = {} /\ ~HasWhitespace(strip(q)) /\ Owning(q, st) # {}) =>
        /\ out.error = "none"
        /\ out.english_results =
              {EnglishResult(normalize_user_query(q), w.id, w.id) :
                  w \in {x \in st.wordforms :
                           /\ x.id \in Owning(q, st)
                           /\ (~x.as_is \/ ClosedClass(x))}}

C19_KeywordHitResults ==
    [][SearchStep =>
          KeywordHitResults(outcome', user_query', kwargs', store')]_vars

\* C20 (as claimed): for every CreeResult there is exactly one SearchResult,
\* matched by the target language, a head, with the text of the matched
\* wordform, the result's lemma and the definitions of that lemma.
OneSearchResultPerCreeResult(out, q, st, searcher) ==
    \A r \in CollectedByAffix(q, st, searcher) \cup DOMAIN out.cree_results :
        Cardinality(
            {i \in 1..Len(out.results) :
                out.results[i] =
                    SearchResult(WordformById(st.wordforms, r.normatized_cree).text,
                                 "crk", TRUE, r.lemma,
                                 definitions_all(st, r.lemma))}) = 1

C20_OneSearchResultPerCreeResult ==
    [][SearchStep =>
          OneSearchResultPerCreeResult(outcome', user_query', store',
                                       affix_searcher')]_vars

\* C21: the merged output of a search holds each distinct SearchResult
\* exactly once: no two elements are equal, and every SearchResult made of a
\* collected result is kept, also when the ranking reports it equal to
\* another one.
Elements(list) == {list[i] : i \in 1..Len(list)}

EachDistinctResultOnce(out, st) ==
    out.error = "none" =>
        /\ \A i, j \in 1..Len(out.results) :
              i # j => out.results[i] # out.results[j]
        /\ Elements(out.results) =
              {cree_search_result(st, r) : r \in DOMAIN out.cree_results}
              \cup {english_search_result(st, r) : r \in out.english_results}

C21_EachDistinctResultOnce ==
    [][SearchStep => EachDistinctResultOnce(outcome', store')]_vars

\* C21 witness: a call has returned two results that differ and that the
\* ranking reports as equal
C21_Witness ==
    /\ outcome.error = "none"
    /\ \E i, j \in 1..Len(outcome.results) :
          /\ outcome.results[i] # outcome.results[j]
          /\ sort_search_result(outcome.results[i], outcome.results[j],
                                user_query) = 0

-----------------------------------------------------------------------------
(* apps/gunaha/import_dictionary.py: the import of the vocabulary list *)

MaxFileEntries == 3

None == <<>>

\* the rows of the tables
DictionarySource(abbrv, last_import_sha384) ==
    [abbrv |-> abbrv, last_import_sha384 |-> last_import_sha384]

GunahaHead(pk, text, word_class) ==
    [pk |-> pk, text |-> text, word_class |-> word_class]

GunahaDefinition(pk, text, defines) ==
    [pk |-> pk, text |-> text, defines |-> defines]

Definition2Source(definition_id, dictionarysource_id) ==
    [definition_id |-> definition_id,
     dictionarysource_id |-> dictionarysource_id]

OnespotDuplicate(entry_id, duplicate_of) ==
    [entry_id |-> entry_id, duplicate_of |-> duplicate_of]

dictionary_source_id == "Onespot"

\* one row of the TSV file: the columns "ID", "Bruce - Tsuut'ina text",
\* "Part of speech" and "Bruce - English text"
Entry(ID, term, pos, english) ==
    [ID |-> ID, term |-> term, pos |-> pos, english |-> english]

Digits == {"0", "1", "2", "3", "4", "5", "6", "7", "8", "9"}

\* the characters that \w matches, among those an ID of the model is made of
WordCharacters == Digits \cup {"a", "b", "o", "s", "_"}

\* ONESPOT_ID_PATTERN.match(entry_id) for ^(os\d{5})(\w)?$ : the two groups,
\* or None
ONESPOT_ID_PATTERN_match(entry_id) ==
    IF /\ Len(entry_id) \in {7, 8}
       /\ entry_id[1] = "o"
       /\ entry_id[2] = "s"
       /\ \A i \in 3..7 : entry_id[i] \in Digits
       /\ Len(entry_id) = 8 => entry_id[8] \in WordCharacters
    THEN <<SubSeq(entry_id, 1, 7), SubSeq(entry_id, 8, Len(entry_id))>>
    ELSE None

should_skip_importing_head(head) ==
    \/ head = <<>>
    \/ head[1] = "star"
    \/ head[Len(head)] = "star"
    \/ \E i \in 1..(Len(head) - 1) : head[i] = "qmark" /\ head[i + 1] = "qmark"

\* two arguments whose SHA-1 values agree in the low 32 bits
CollidingArguments ==
    << <<<<"l">>, <<"o", "s", "0", "0", "0", "0", "3">>>>,
       <<<<"a">>, <<"o", "s", "0", "0", "0", "0", "3">>>> >>

\* make_primary_key: the low 32 bits of the SHA-1 of the arguments.  The
\* value stands for the number: arguments that differ have different values,
\* but for the one colliding pair
make_primary_key(definition, head_pk) ==
    IF <<definition, head_pk>> = CollidingArguments[1]
    THEN CollidingArguments[2]
    ELSE <<definition, head_pk>>

\* compute_hash_of_source: SHA-384 of the bytes; different files have
\* different digests
compute_hash_of_source(raw_bytes) == <<"sha384", raw_bytes>>

\* OnespotWordlistImporter.__init__: the data structures of one import
OnespotWordlistImporter ==
    [heads |-> {}, text_wc_to_id |-> {}, duplicates |-> <<>>,
     definitions |-> {}, error |-> "none"]

\* self.heads[pk]
HeadWithPk(heads, pk) == CHOOSE h \in heads : h.pk = pk

\* prepare_head_from_entry: the importer after the entry, and the head the
\* entry belongs to (None when the entry is skipped)
OnespotWordlistImporter_prepare_head_from_entry(imp, entry) ==
    LET term == normalize_orthography(entry.term)
        match == ONESPOT_ID_PATTERN_match(entry.ID)
    IN  IF should_skip_importing_head(term) THEN [imp |-> imp, head |-> None]
        ELSE IF match = None THEN [imp |-> imp, head |-> None]
        ELSE
        LET word_class == entry.pos
            unique_tag == <<term, word_class>>
            known == {p \in imp.text_wc_to_id : p[1] = unique_tag}
            existing_entry == (CHOOSE p \in known : TRUE)[2]
            primary_key == IF known # {} THEN existing_entry ELSE match[1]
            heads == IF \E h \in imp.heads : h.pk = primary_key
                     THEN imp.heads
                     ELSE imp.heads
                          \cup {GunahaHead(primary_key, term, word_class)}
        IN  [imp |->
                [imp EXCEPT
                    !.heads = heads,
                    !.text_wc_to_id =
                        IF known # {} THEN @
                        ELSE @ \cup {<<unique_tag, match[1]>>},
                    !.duplicates =
                        IF known # {}
                        THEN Append(@, OnespotDuplicate(match[1], existing_entry))
                        ELSE @],
             head |-> <<HeadWithPk(heads, primary_key)>>]

\* prepare_definition_from_entry
prepare_definition_from_entry(imp, entry, head) ==
    LET definition == nfc(entry.english)
        pk == make_primary_key(definition, head.pk)
        old_definition == {d \in imp.definitions : d.pk = pk}
    IN  IF definition = <<>> THEN imp
        ELSE IF old_definition # {}
        THEN IF (CHOOSE d \in old_definition : TRUE).text # definition
             THEN [imp EXCEPT !.error = "DictionaryImportError"]
             ELSE imp
        ELSE [imp EXCEPT
                 !.definitions = @ \cup {GunahaDefinition(pk, definition, head.pk)}]

\* the loop of prepare_models_before_import over the rows of the file
RECURSIVE prepare_entries(_, _)
prepare_entries(imp, entries) ==
    IF entries = <<>> \/ imp.error # "none" THEN imp
    ELSE LET prepared ==
                 OnespotWordlistImporter_prepare_head_from_entry(imp, Head(entries))
         IN  prepare_entries(
                 IF prepared.head = None THEN prepared.imp
                 ELSE prepare_definition_from_entry(prepared.imp, Head(entries),
                                                    prepared.head[1]),
                 Tail(entries))

\* prepare_models_before_import: the bytes are decoded, then every row is
\* prepared
prepare_models_before_import(raw_bytes) ==
    IF ~raw_bytes.utf8
    THEN [OnespotWordlistImporter EXCEPT !.error = "UnicodeDecodeError"]
    ELSE prepare_entries(OnespotWordlistImporter, raw_bytes.entries)

\* create_source_for_onespot_wordlist
create_source_for_onespot_wordlist(file_hash) ==
    DictionarySource(dictionary_source_id, file_hash)

\* are the values of a sequence pairwise different?
NoRepeat(seq) == \A i, j \in 1..Len(seq) : i # j => seq[i] # seq[j]

\* OnespotWordlistImporter.bulk_import: the five bulk_create in one
\* transaction.  A row whose primary key is in the table already, or twice in
\* the rows to insert, fails the insert, and the transaction is rolled back.
OnespotWordlistImporter_bulk_import(imp, dictionary_source, db) ==
    IF \/ \E s \in db.sources : s.abbrv = dictionary_source.abbrv
       \/ \E h \in imp.heads : \E g \in db.heads : g.pk = h.pk
       \/ \E d \in imp.definitions : \E e \in db.definitions : e.pk = d.pk
       \/ ~NoRepeat([i \in 1..Len(imp.duplicates) |-> imp.duplicates[i].entry_id])
       \/ \E i \in 1..Len(imp.duplicates) :
             \E e \in db.duplicates : e.entry_id = imp.duplicates[i].entry_id
    THEN [error |-> "IntegrityError", db |-> db]
    ELSE [error |-> "none",
          db |-> [db EXCEPT
                    !.sources = @ \cup {dictionary_source},
                    !.heads = @ \cup imp.heads,
                    !.definitions = @ \cup imp.definitions,
                    !.citations = @ \cup
                        {Definition2Source(d.pk, dictionary_source_id) :
                            d \in imp.definitions},
                    !.duplicates = @ \cup Range(imp.duplicates)]]

\* a check that would look at the database only and never find the file
\* imported
has_already_imported_tsv_never(file_hash, db) ==
    IF ~db.migrated THEN "error" ELSE "no"

\* has_already_imported_tsv: "error", "yes" or "no"
has_already_imported_tsv(file_hash, db) ==
    IF ~db.migrated THEN "error"
    ELSE LET ds == {s \in db.sources : s.abbrv = dictionary_source_id}
         IN  IF ds = {} THEN "no"
             ELSE IF file_hash = (CHOOSE s \in ds : TRUE).last_import_sha384
             THEN "yes"
             ELSE "no"

\* OnespotWordlistImporter.run: the error it raises ("none" when it returns)
\* and the database it leaves
run(raw_bytes, db) ==
    LET file_hash == compute_hash_of_source(raw_bytes)
        already == has_already_imported_tsv(file_hash, db)
        imp == prepare_models_before_import(raw_bytes)
    IN  IF already = "error"
        THEN [error |-> "DictionaryImportError", imported |-> FALSE, db |-> db]
        ELSE IF already = "yes"
        THEN [error |-> "none", imported |-> FALSE, db |-> db]
        ELSE IF imp.error # "none"
        THEN [error |-> imp.error, imported |-> FALSE, db |-> db]
        ELSE LET done == OnespotWordlistImporter_bulk_import(
                             imp, create_source_for_onespot_wordlist(file_hash), db)
             IN  [error |-> done.error, imported |-> done.error = "none",
                  db |-> done.db]

\* purge_all_existing_entries: the four deletes in one transaction; deleting
\* the heads deletes the rows that refer to them (on_delete = CASCADE)
purge_all_existing_entries(db) ==
    [db EXCEPT !.sources = {}, !.heads = {}, !.definitions = {},
               !.citations = {}, !.duplicates = {}]

\* import_dictionary(purge) on the file at the path (Unset when there is
\* none): the error it raises ("none" when it returns), whether rows were
\* inserted, and the database it leaves
import_dictionary_on(purge, file, db) ==
    IF file = Unset
    THEN [error |-> "DictionaryImportError", imported |-> FALSE, db |-> db]
    ELSE IF purge /\ ~db.migrated
    THEN [error |-> "OperationalError", imported |-> FALSE, db |-> db]
    ELSE run(file[1], IF purge THEN purge_all_existing_entries(db) ELSE db)

-----------------------------------------------------------------------------
(* The import specification *)

OnespotId(digit, suffix) == <<"o", "s", "0", "0", "0", "0", digit>> \o suffix

\* the rows a vocabulary list of the model is made of
SheetRows ==
    << Entry(OnespotId("1", <<>>), <<"l_tilde", "a">>, "N", <<"a">>),
       Entry(OnespotId("2", <<>>), <<"l_stroke", "a">>, "N", <<"a", "l">>),
       Entry(OnespotId("3", <<>>), <<"a", "l">>, "V", <<"a">>),
       Entry(OnespotId("3", <<"a">>), <<"a">>, "V", <<"l", "a">>),
       Entry(OnespotId("4", <<>>), <<"star", "a">>, "N", <<"a">>),
       Entry(OnespotId("2", <<"a">>), <<"l_stroke", "a">>, "N", <<>>),
       Entry(OnespotId("6", <<>>), <<"a", "l">>, "V", <<"l">>) >>

\* the files: every choice of at most MaxFileEntries rows, in the order of
\* the sheet, and one file that is not UTF-8
Files ==
    {[utf8 |-> TRUE, entries |-> Pick(SheetRows, c)] :
        c \in {x \in SUBSET (1..Len(SheetRows)) :
                  Cardinality(x) <= MaxFileEntries}}
    \cup {[utf8 |-> FALSE, entries |-> <<>>]}

ImportInit ==
    /\ OrthIdle
    /\ SearchIdle
    /\ DictIdle

\* manage.py migrate: the tables are created
migrate ==
    /\ ~database.migrated
    /\ database' = [database EXCEPT !.migrated = TRUE]
    /\ UNCHANGED <<tsv, import_outcome, index, head_query, languages,
                   head_outcome>>
    /\ UNCHANGED <<orthVars, searchVars>>

\* manage.py downloaddictionary: the sheet is written to the path
downloaddictionary(raw_bytes) ==
    /\ tsv' = <<raw_bytes>>
    /\ UNCHANGED <<database, import_outcome, index, head_query, languages,
                   head_outcome>>
    /\ UNCHANGED <<orthVars, searchVars>>

\* the file is taken away from the path
remove_tsv ==
    /\ tsv # Unset
    /\ tsv' = Unset
    /\ UNCHANGED <<database, import_outcome, index, head_query, languages,
                   head_outcome>>
    /\ UNCHANGED <<orthVars, searchVars>>

\* one call of import_dictionary(purge); GunahaConfig.ready calls it with
\* purge = False
import_dictionary(purge) ==
    /\ UNCHANGED <<tsv, index, head_query, languages, head_outcome>>
    /\ UNCHANGED <<orthVars, searchVars>>
    /\ LET done == import_dictionary_on(purge, tsv, database)
       IN  /\ import_outcome' = [purge |-> purge, error |-> done.error,
                                 imported |-> done.imported]
           /\ database' = done.db

ImportNext ==
    \/ migrate
    \/ \E raw_bytes \in Files : downloaddictionary(raw_bytes)
    \/ remove_tsv
    \/ \E purge \in BOOLEAN : import_dictionary(purge)

ImportSpec == ImportInit /\ [][ImportNext]_vars

-----------------------------------------------------------------------------
(* Claims about the import, checked under ImportSpec *)

\* a step that is one call of import_dictionary
ImportStep == \E purge \in BOOLEAN : import_dictionary(purge)

\* the Onespot DictionarySource rows of a database
StoredSource(db) == {s \in db.sources : s.abbrv = dictionary_source_id}

\* the file at the path has the digest the stored source records
SameFileStored(file, db) ==
    /\ file # Unset
    /\ \E s \in StoredSource(db) :
          s.last_import_sha384 = compute_hash_of_source(file[1])

\* C27: importing the same dictionary file again is a no-op: when the
\* SHA-384 of the file is the last_import_sha384 of the stored Onespot
\* source, the import returns and has inserted, updated and deleted nothing.
SameFileIsNoOp(file, db_before, done, db_after) ==
    (~done.purge /\ SameFileStored(file, db_before)) =>
        /\ done.error = "none"
        /\ ~done.imported
        /\ db_after = db_before

C27_SameFileIsNoOp ==
    [][ImportStep =>
          SameFileIsNoOp(tsv, database, import_outcome', database')]_vars

\* C27 witness: a file was imported, and a second import of the same file
\* has returned without inserting a row
C27_Witness ==
    /\ SameFileStored(tsv, database)
    /\ database.heads # {}
    /\ import_outcome = [purge |-> FALSE, error |-> "none", imported |-> FALSE]

\* the file at the path is a vocabulary list whose rows can all be prepared,
\* and another version than the stored source records
OtherVersionStored(file, db) ==
    /\ file # Unset
    /\ StoredSource(db) # {}
    /\ ~SameFileStored(file, db)
    /\ prepare_models_before_import(file[1]).error = "none"

\* C28 (as claimed): importing a different version of the file over an
\* existing import, without purge, completes; afterwards the stored source
\* records the SHA-384 of the new file and the heads and definitions of the
\* new file are present.
DifferentVersionImported(file, db_before, done, db_after) ==
    (~done.purge /\ OtherVersionStored(file, db_before)) =>
        /\ done.error = "none"
        /\ SameFileStored(file, db_after)
        /\ LET imp == prepare_models_before_import(file[1])
           IN  /\ imp.heads \subseteq db_after.heads
               /\ imp.definitions \subseteq db_after.definitions

C28_DifferentVersionImported ==
    [][ImportStep =>
          DifferentVersionImported(tsv, database, import_outcome',
                                   database')]_vars

\* C29 (as claimed): an import with purge is all-or-nothing: when it has
\* returned or raised, the database holds the complete previous content or
\* the complete content of the new file.
PurgeAllOrNothing(file, db_before, done, db_after) ==
    done.purge =>
        \/ db_after = db_before
        \/ /\ done.imported
           /\ db_after =
                 run(file[1], purge_all_existing_entries(db_before)).db

C29_PurgeAllOrNothing ==
    [][ImportStep =>
          PurgeAllOrNothing(tsv, database, import_outcome', database')]_vars

\* the rows of a file that are not skipped, with the primary key and the
\* (normalized term, part of speech) of each
Imported(entries) ==
    {[at |-> i,
      primary_key |-> ONESPOT_ID_PATTERN_match(entries[i].ID)[1],
      tag |-> <<normalize_orthography(entries[i].term), entries[i].pos>>] :
        i \in {k \in 1..Len(entries) :
                 /\ ~should_skip_importing_head(
                        normalize_orthography(entries[k].term))
                 /\ ONESPOT_ID_PATTERN_match(entries[k].ID) # None}}

\* C30 (as claimed): for every set of entries with the same (normalized
\* term, part of speech) there is exactly one Head, keyed by the ID of the
\* first entry of the set; every later entry of the set is one
\* OnespotDuplicate of that Head; and every Onespot ID is the key of exactly
\* one Head or the entry_id of exactly one OnespotDuplicate.
OneHeadPerTag(entries, db) ==
    /\ \A e \in Imported(entries) :
          LET first == CHOOSE f \in Imported(entries) :
                           /\ f.tag = e.tag
                           /\ \A g \in Imported(entries) :
                                 g.tag = e.tag => f.at <= g.at
          IN  /\ {h \in db.heads : <<h.text, h.word_class>> = e.tag}
                     = {GunahaHead(first.primary_key, e.tag[1], e.tag[2])}
              /\ e.at # first.at =>
                    Cardinality({d \in db.duplicates :
                                    /\ d.entry_id = e.primary_key
                                    /\ d.duplicate_of = first.primary_key}) = 1
    /\ \A e \in Imported(entries) :
          Cardinality({h \in db.heads : h.pk = e.primary_key})
          + Cardinality({d \in db.duplicates : d.entry_id = e.primary_key}) = 1

C30_OneHeadPerTag ==
    [][(ImportStep /\ import_outcome'.imported) =>
          OneHeadPerTag(tsv[1].entries, database')]_vars

-----------------------------------------------------------------------------
(* apps/morphodict/search_indexes.py, managers.py, search.py: the search of
   the heads *)

DEFAULT_LANGUAGES == {"srs", "eng"}

\* str.split(): the words of a text
RECURSIVE split(_)
split(text) ==
    LET s == lstrip(text)
        n == IF \E i \in 1..Len(s) : IsSpace(s[i])
             THEN (CHOOSE i \in 1..Len(s) :
                      IsSpace(s[i]) /\ \A j \in 1..(i - 1) : ~IsSpace(s[j])) - 1
             ELSE Len(s)
    IN  IF s = <<>> THEN {}
        ELSE {SubSeq(s, 1, n)} \cup split(SubSeq(s, n + 1, Len(s)))

\* the document field of a head (the template head_text.txt): the words of
\* its definitions
head_text_txt(db, head) ==
    UNION {split(lower(d.text)) : d \in {x \in db.definitions : x.defines = head.pk}}

\* HeadIndex.prepare_definitions
prepare_definitions(db, head) ==
    {d.text : d \in {x \in db.definitions : x.defines = head.pk}}

\* HeadIndex: the document of one head, with the fields the index declares
HeadIndex(db, head) ==
    [pk |-> head.pk,
     text |-> head_text_txt(db, head),
     definitions |-> prepare_definitions(db, head),
     head |-> to_search_form(head.text)]

\* the index after update_index: one document for every head of
\* index_queryset
index_queryset(db) == {HeadIndex(db, head) : head \in db.heads}

\* text.startswith(prefix)
startswith(text, prefix) ==
    Len(prefix) <= Len(text) /\ SubSeq(text, 1, Len(prefix)) = prefix

\* query_set.filter(<field>__startswith = value): the documents whose field
\* starts with the value; a field the index does not declare matches nothing
filter_startswith(documents, field, value) ==
    {d \in documents : field \in DOMAIN d /\ startswith(d[field], value)}

\* query_set.auto_query(text): the documents whose document field holds every
\* word of the text
auto_query(documents, text) ==
    {d \in documents :
        split(lower(text)) # {} /\ split(lower(text)) \subseteq d.text}

\* HeadManager._search_in_dictionary_language
HeadManager_search_in_dictionary_language(text, query_set) ==
    filter_startswith(query_set, "head_simplified", to_search_form(text))

\* HeadManager._search_in_definition_language
search_in_definition_language(text, query_set) == auto_query(query_set, text)

\* the test of HeadManager.search for an invalid selection
invalid_languages(selection) == DEFAULT_LANGUAGES \cap selection = {}

\* HeadManager.search(query, languages) on the documents of the index; query
\* is Unset for None.  The result is the set of the keys of the documents.
HeadManager_search(query, selection, documents) ==
    IF selection # {} /\ invalid_languages(selection)
    THEN [error |-> "InvalidLanguageError", result |-> {}]
    ELSE LET chosen == IF selection = {} THEN DEFAULT_LANGUAGES ELSE selection
             query_set == IF query = Unset THEN {} ELSE documents
             text == IF query = Unset THEN <<>> ELSE query[1]
             in_eng == IF "eng" \in chosen
                       THEN search_in_definition_language(text, query_set)
                       ELSE {}
             in_srs == IF "srs" \in chosen
                       THEN HeadManager_search_in_dictionary_language(text, query_set)
                       ELSE {}
         IN  [error |-> "none", result |-> {d.pk : d \in in_eng \cup in_srs}]

-----------------------------------------------------------------------------
(* The head search specification *)

\* the databases an import into an empty database leaves
Dictionaries ==
    {done.db : done \in
        {x \in {run(f, [NoDatabase EXCEPT !.migrated = TRUE]) : f \in Files} :
            x.imported}}

HeadQueries ==
    {<<"a">>, <<"A", "l">>, <<"l", "a">>, <<"l_tilde", "a_acute">>, <<"l">>,
     <<"l", "a", "sp", "a">>, <<"l_stroke">>}

LanguageSelections ==
    {{}, {"srs"}, {"eng"}, {"srs", "eng"}, {"fra"}, {"srs", "fra"},
     {"eng", "fra"}}

HeadInit ==
    /\ OrthIdle
    /\ SearchIdle
    /\ database \in Dictionaries
    /\ tsv = Unset
    /\ import_outcome = NoImport
    /\ index = {}
    /\ head_query = Unset
    /\ languages = {}
    /\ head_outcome = NoHeadOutcome

\* manage.py update_index: the index is built of the heads of the database
update_index ==
    /\ index' = index_queryset(database)
    /\ UNCHANGED <<database, tsv, import_outcome, head_query, languages,
                   head_outcome>>
    /\ UNCHANGED <<orthVars, searchVars>>

\* one call of Head.objects.search(query, languages)
HeadSearch(query, selection) ==
    /\ head_query' = query
    /\ languages' = selection
    /\ head_outcome' = HeadManager_search(query, selection, index)
    /\ UNCHANGED <<database, tsv, import_outcome, index>>
    /\ UNCHANGED <<orthVars, searchVars>>

HeadNext ==
    \/ update_index
    \/ \E query \in {Unset} \cup {<<q>> : q \in HeadQueries},
          selection \in LanguageSelections : HeadSearch(query, selection)

HeadSpec == HeadInit /\ [][HeadNext]_vars

-----------------------------------------------------------------------------
(* Claims about the search of the heads, checked under HeadSpec *)

\* a step that is one call of Head.objects.search
HeadStep ==
    \E query \in {Unset} \cup {<<q>> : q \in HeadQueries},
       selection \in LanguageSelections : HeadSearch(query, selection)

\* the indexed heads whose search form starts with the search form of the
\* query
MatchedByHeadPrefix(documents, text) ==
    {d.pk : d \in {x \in documents :
                      startswith(x.head, to_search_form(text))}}

\* the indexed heads matched through their definitions
MatchedByDefinition(documents, text) ==
    {d.pk : d \in auto_query(documents, text)}

\* C22 (as claimed): a head search restricted to one language returns only
\* the heads matched in that language: with languages = {srs} exactly the
\* heads whose search form starts with the search form of the query, with
\* languages = {eng} exactly the heads matched through their definitions.
RestrictedToOneLanguage(query, selection, documents, out) ==
    query # Unset =>
        /\ selection = {"srs"} =>
              /\ out.error = "none"
              /\ out.result = MatchedByHeadPrefix(documents, query[1])
        /\ selection = {"eng"} =>
              /\ out.error = "none"
              /\ out.result = MatchedByDefinition(documents, query[1])

C22_RestrictedToOneLanguage ==
    [][HeadStep =>
          RestrictedToOneLanguage(head_query', languages', index',
                                  head_outcome')]_vars

\* C23 (as claimed): a head search with an empty or missing language
\* selection searches both languages: its result is the union of the heads
\* matched by head prefix and the heads matched through their definitions.
EmptySelectionSearchesBoth(query, selection, documents, out) ==
    (query # Unset /\ selection = {}) =>
        /\ out.error = "none"
        /\ out.result = MatchedByHeadPrefix(documents, query[1])
                        \cup MatchedByDefinition(documents, query[1])

C23_EmptySelectionSearchesBoth ==
    [][HeadStep =>
          EmptySelectionSearchesBoth(head_query', languages', index',
                                     head_outcome')]_vars

\* C24 (as claimed): a head search whose non-empty language selection holds
\* a language that is not supported raises InvalidLanguageError and returns
\* no result.
InvalidSelectionRejected(selection, out) ==
    (selection # {} /\ ~(selection \subseteq DEFAULT_LANGUAGES)) =>
        /\ out.error = "InvalidLanguageError"
        /\ out.result = {}

C24_InvalidSelectionRejected ==
    [][HeadStep => InvalidSelectionRejected(languages', head_outcome')]_vars

-----------------------------------------------------------------------------
(* Claims about the lemma of a result, checked under Spec *)

\* the EnglishResults the first keyword loop of a call collects, also when
\* the call raises afterwards
CollectedByKeyword(q, kw, st) ==
    LET uq == normalize_user_query(q)
    IN  IF /\ "sp" \notin Range(uq)
           /\ names(kw) \subseteq EnglishKeywordFields \cap WordformFields
        THEN english_results_of(st, uq, kw)
        ELSE {}

\* the lemma of a result is the lemma relation of the matched wordform, and
\* that is a wordform with is_lemma
GoverningLemma(st, matched, lemma) ==
    /\ lemma = WordformById(st.wordforms, matched).lemma
    /\ WordformById(st.wordforms, lemma).is_lemma

\* C25 (as claimed): every result is resolved to its governing lemma: the
\* lemma of every CreeResult and of every EnglishResult (also of those a call
\* collects before it raises) is the lemma relation of the matched wordform,
\* a wordform with is_lemma, also when the keyword is bound to an inflection.
ResolvedToLemma(out, q, kw, st, exists, searcher) ==
    exists =>
        /\ \A r \in CollectedByAffix(q, st, searcher) \cup DOMAIN out.cree_results :
              GoverningLemma(st, r.normatized_cree, r.lemma)
        /\ \A r \in CollectedByKeyword(q, kw, st) \cup out.english_results :
              GoverningLemma(st, r.matched_cree, r.lemma)

C25_ResolvedToLemma ==
    [][SearchStep =>
          ResolvedToLemma(outcome', user_query', kwargs', store',
                          table_exists', affix_searcher')]_vars

-----------------------------------------------------------------------------
(* The save specification: calls of Wordform.save that may run side by side *)

MaxRows == 4

\* the wordform objects of the program; each has a text of its own
Instances ==
    {[text |-> t, is_lemma |-> l] : t \in SavedTexts, l \in BOOLEAN}

SaveInit ==
    /\ OrthIdle
    /\ DictIdle
    /\ pc = "off"
    /\ table_exists = TRUE
    /\ store = EmptyStore
    /\ affix_searcher = Unset
    /\ in_flight = <<>>
    /\ user_query = <<>>
    /\ kwargs = {}
    /\ outcome = NoOutcome

\* the first half of wordform.save(): Max("id") is read and the id and the
\* lemma of the object are set; lemma is the lemma_id the object has
save_begins(wordform, lemma) ==
    /\ Len(in_flight) < 2
    /\ Cardinality(store.wordforms) + Len(in_flight) < MaxRows
    /\ \A i \in 1..Len(in_flight) : in_flight[i].text # wordform.text
    /\ \A w \in store.wordforms :
          w.text = wordform.text => w.is_lemma = wordform.is_lemma
    /\ LET id == IF max_id(store.wordforms) = Null THEN 0
                 ELSE max_id(store.wordforms) + 1
       IN  in_flight' =
              Append(in_flight,
                     Wordform(id, wordform.text, "", wordform.is_lemma, FALSE,
                              IF wordform.is_lemma THEN id ELSE lemma, "", ""))
    /\ UNCHANGED <<pc, table_exists, store, affix_searcher, user_query,
                   kwargs, outcome>>
    /\ UNCHANGED <<orthVars, dictVars>>

\* the second half: super().save() writes the row.  Model.save updates the
\* row that has the id and inserts one when there is none.  When another save
\* has taken the id in between, the update overwrites its row, or (the other
\* transaction not yet committed at the update) the insert fails on the
\* primary key and nothing is stored.  A row without a lemma is refused.
save_ends(i) ==
    /\ i \in 1..Len(in_flight)
    /\ LET row == in_flight[i]
           taken == {w \in store.wordforms : w.id = row.id}
       IN  \/ /\ row.lemma # Null
              /\ store' = [store EXCEPT !.wordforms = (@ \ taken) \cup {row}]
           \/ /\ row.lemma = Null \/ taken # {}
              /\ store' = store
    /\ in_flight' = SubSeq(in_flight, 1, i - 1)
                    \o SubSeq(in_flight, i + 1, Len(in_flight))
    /\ UNCHANGED <<pc, table_exists, affix_searcher, user_query, kwargs,
                   outcome>>
    /\ UNCHANGED <<orthVars, dictVars>>

SaveNext ==
    \/ \E wordform \in Instances,
          lemma \in {w.id : w \in store.wordforms} \cup {Null} :
            save_begins(wordform, lemma)
    \/ \E i \in 1..2 : save_ends(i)

SaveSpec == SaveInit /\ [][SaveNext]_vars

\* C26 (as claimed): Wordform.save keeps ids unique and auto-incrementing:
\* after any interleaving of saves every stored wordform has a distinct id,
\* no save overwrites the row of another wordform, and each wordform is
\* stored in exactly one row.
SaveKeepsRows(before, after) ==
    /\ \A v, w \in after : v.id = w.id => v = w
    /\ \A v \in before : \E w \in after : w.id = v.id /\ w.text = v.text
    /\ \A v, w \in after : v.text = w.text => v = w

C26_SaveKeepsRows ==
    [][(\E i \in 1..2 : save_ends(i)) =>
          SaveKeepsRows(store.wordforms, store'.wordforms)]_vars

=============================================================================
